---- MODULE Spec2Model ----
(***************************************************************************)
(* Model of doc/conf.py, the Sphinx configuration module of the jsbot      *)
(* documentation.  The module namespace produced by loading the file is    *)
(* the record `config`; the application object handed to the setup hook    *)
(* is modelled by the log of method calls it has received.                 *)
(*                                                                         *)
(* Python strings whose characters are inspected (language tags, the base  *)
(* URL, the sitemap URL template) are sequences of one-character strings;  *)
(* strings that are only compared or concatenated are TLA+ strings.        *)
(***************************************************************************)
EXTENDS Integers, Sequences, FiniteSets, TLC

VARIABLES config, app, ret, invocations, lastRead

vars == <<config, app, ret, invocations, lastRead>>

\* Largest number of times the build tool invokes the setup hook.
MaxSetup == 4

(***************************************************************************)
(* Python helpers used by the module-level assignments.                    *)
(***************************************************************************)

\* An f-string (JoinedStr): the concatenation, left to right, of its literal
\* segments and of its replacement fields formatted with the empty format
\* spec, which for a str value yields the value's own text.
RECURSIVE JoinedStr(_)
JoinedStr(segs) ==
    IF segs = <<>> THEN ""
    ELSE Head(segs).text \o JoinedStr(Tail(segs))

Literal(s) == [kind |-> "literal", text |-> s]
Field(v) == [kind |-> "field", text |-> v]

(***************************************************************************)
(* Module-level assignments, in source order.                              *)
(***************************************************************************)

project == "Discord.js Bot Project"
copyright == "2024, d"
author == "d"

\* Variant: the title carries text after the project name.
html_title_suffixed == JoinedStr(<<Field(project), Literal(" documentation")>>)
html_title == JoinedStr(<<Field(project)>>)

\* Variant: one extension listed twice.
extensions_duplicate ==
    << "myst_parser",
       "sphinx.ext.extlinks",
       "sphinx.ext.graphviz",
       "sphinx.ext.intersphinx",
       "sphinx.ext.todo",
       "sphinx_copybutton",
       "sphinx_design",
       "sphinx_design",
       "sphinx_last_updated_by_git",
       "sphinx_sitemap",
       "sphinx_tabs.tabs",
       "sphinx_togglebutton",
       "sphinxext.opengraph" >>
\* Variant: the sitemap extension left out of the list.
extensions_no_sitemap ==
    << "myst_parser",
       "sphinx.ext.extlinks",
       "sphinx.ext.graphviz",
       "sphinx.ext.intersphinx",
       "sphinx.ext.todo",
       "sphinx_copybutton",
       "sphinx_design",
       "sphinx_examples",
       "sphinx_last_updated_by_git",
       "sphinx_tabs.tabs",
       "sphinx_togglebutton",
       "sphinxext.opengraph" >>
extensions ==
    << "myst_parser",
       "sphinx.ext.extlinks",
       "sphinx.ext.graphviz",
       "sphinx.ext.intersphinx",
       "sphinx.ext.todo",
       "sphinx_copybutton",
       "sphinx_design",
       "sphinx_examples",
       "sphinx_last_updated_by_git",
       "sphinx_sitemap",
       "sphinx_tabs.tabs",
       "sphinx_togglebutton",
       "sphinxext.opengraph" >>

\* Non-ASCII text is written as its Unicode code points.
togglebutton_hint == "U+70B9 U+51FB U+5C55 U+5F00"
togglebutton_hint_hide == "U+70B9 U+51FB U+9690 U+85CF"

templates_path == <<"_templates">>
exclude_patterns == <<"README.md">>

\* Variant: another locale than the search language.
language_en_US == <<"e", "n", "_", "U", "S">>
language == <<"z", "h", "_", "C", "N">>

html_copy_source == FALSE
\* Variant: the source link left enabled.
html_show_sourcelink_enabled == TRUE
html_show_sourcelink == FALSE

myst_enable_extensions == <<"colon_fence", "deflist", "dollarmath">>
myst_heading_anchors == 2
myst_highlight_code_blocks == TRUE

html_theme == "sphinx_book_theme"

\* Variant: the repository URL left empty.
html_theme_options_no_repository ==
    [ icon_links |->
        << [ name |-> "Gitlab",
             url |-> "https://github.com/ODYZZEIA-Discord-bot/jsbot_doc",
             icon |-> "fa-brands fa-gitlab" ] >>,
      repository_url |-> "",
      search_as_you_type |-> TRUE,
      show_nav_level |-> 0,
      show_prev_next |-> TRUE,
      show_toc_level |-> 2,
      use_edit_page_button |-> TRUE,
      use_issues_button |-> TRUE,
      use_sidenotes |-> TRUE,
      use_source_button |-> TRUE ]
html_theme_options ==
    [ icon_links |->
        << [ name |-> "Gitlab",
             url |-> "https://github.com/ODYZZEIA-Discord-bot/jsbot_doc",
             icon |-> "fa-brands fa-gitlab" ] >>,
      repository_url |-> "https://github.com/ODYZZEIA-Discord-bot/jsbot_doc",
      search_as_you_type |-> TRUE,
      show_nav_level |-> 0,
      show_prev_next |-> TRUE,
      show_toc_level |-> 2,
      use_edit_page_button |-> TRUE,
      use_issues_button |-> TRUE,
      use_sidenotes |-> TRUE,
      use_source_button |-> TRUE ]

html_static_path == <<"_static", "_theme">>
html_search_language == <<"z", "h">>
html_last_updated_fmt == "%Y-%m-%d %H:%M:%S"
git_last_updated_timezone == "Asia/Shanghai"
html_baseurl ==
    <<"h", "t", "t", "p", "s", ":", "/", "/", "T", "O", "D", "O", "/">>
sitemap_filename == "sitemapindex.xml"
\* Variant: the extension's default template, with a language placeholder.
sitemap_url_scheme_with_lang ==
    <<"{", "l", "a", "n", "g", "}", "{", "l", "i", "n", "k", "}">>
sitemap_url_scheme == <<"{", "l", "i", "n", "k", "}">>
html_extra_path == <<"_static/robots.txt">>

\* The namespace left by executing the module: every module-level name bound
\* to a configuration value.
ModuleLoad ==
    [ project |-> project,
      copyright |-> copyright,
      author |-> author,
      html_title |-> html_title,
      extensions |-> extensions,
      togglebutton_hint |-> togglebutton_hint,
      togglebutton_hint_hide |-> togglebutton_hint_hide,
      templates_path |-> templates_path,
      exclude_patterns |-> exclude_patterns,
      language |-> language,
      html_copy_source |-> html_copy_source,
      html_show_sourcelink |-> html_show_sourcelink,
      myst_enable_extensions |-> myst_enable_extensions,
      myst_heading_anchors |-> myst_heading_anchors,
      myst_highlight_code_blocks |-> myst_highlight_code_blocks,
      html_theme |-> html_theme,
      html_theme_options |-> html_theme_options,
      html_static_path |-> html_static_path,
      html_search_language |-> html_search_language,
      html_last_updated_fmt |-> html_last_updated_fmt,
      git_last_updated_timezone |-> git_last_updated_timezone,
      html_baseurl |-> html_baseurl,
      sitemap_filename |-> sitemap_filename,
      sitemap_url_scheme |-> sitemap_url_scheme,
      html_extra_path |-> html_extra_path ]

ConfigKeys == DOMAIN ModuleLoad

(***************************************************************************)
(* The setup hook.                                                         *)
(***************************************************************************)

Call(method, args) == [method |-> method, args |-> args]

\* Effect of the body of setup on the application object `a` (its call log).
\* Variant: the hook registers a second asset.
setup_twice(a) ==
    Append(Append(a, Call("add_css_file", <<"theme.css">>)),
           Call("add_js_file", <<"theme.js">>))
setup(a) == Append(a, Call("add_css_file", <<"theme.css">>))

\* The build tool invokes the hook with its application object.  The body
\* has no return statement, so the call evaluates to None; it names no
\* module-level variable, so the namespace is left alone.
\* Variant: the hook also appends to html_static_path.
InvokeSetup_writes_config ==
    /\ invocations < MaxSetup
    /\ app' = setup(app)
    /\ ret' = "None"
    /\ invocations' = invocations + 1
    /\ config' = [config EXCEPT !.html_static_path = Append(@, "theme.css")]
    /\ UNCHANGED lastRead
InvokeSetup ==
    /\ invocations < MaxSetup
    /\ app' = setup(app)
    /\ ret' = "None"
    /\ invocations' = invocations + 1
    /\ UNCHANGED <<config, lastRead>>

\* The build tool reads one configuration value from the namespace.
ReadConfig(k) ==
    /\ k \in DOMAIN config
    /\ lastRead' = k
    /\ UNCHANGED <<config, app, ret, invocations>>

Init ==
    /\ config = ModuleLoad
    /\ app = <<>>
    /\ ret = "unset"
    /\ invocations = 0
    /\ lastRead = "none"

Next ==
    \/ InvokeSetup
    \/ \E k \in ConfigKeys : ReadConfig(k)

Spec == Init /\ [][Next]_vars

(***************************************************************************)
(* Operators the properties below are stated with.                         *)
(***************************************************************************)

Range(s) == {s[i] : i \in DOMAIN s}

\* Python's tag.split('_')[0]: the characters before the first underscore.
RECURSIVE PrimarySubtag(_)
PrimarySubtag(tag) ==
    IF tag = <<>> \/ Head(tag) = "_" THEN <<>>
    ELSE <<Head(tag)>> \o PrimarySubtag(Tail(tag))

\* The characters of s before the first occurrence of the character c.
RECURSIVE Before(_, _)
Before(s, c) ==
    IF s = <<>> \/ Head(s) = c THEN <<>>
    ELSE <<Head(s)>> \o Before(Tail(s), c)

\* Python's template.format(**kw) for named replacement fields: "{{" and "}}"
\* are literal braces, "{name}" is replaced by kw[name], every other
\* character is copied.
RECURSIVE StrFormat(_, _)
StrFormat(template, kw) ==
    IF template = <<>> THEN <<>>
    ELSE IF Len(template) >= 2 /\ Head(template) \in {"{", "}"}
                               /\ template[2] = Head(template)
         THEN <<Head(template)>> \o StrFormat(SubSeq(template, 3, Len(template)), kw)
    ELSE IF Head(template) = "{"
         THEN LET name == Before(Tail(template), "}")
              IN  kw[name] \o
                  StrFormat(SubSeq(template, Len(name) + 3, Len(template)), kw)
    ELSE <<Head(template)>> \o StrFormat(Tail(template), kw)

\* Keyword arguments the sitemap extension formats the URL template with.
SitemapKw(lang, version, link) ==
    (<<"l", "a", "n", "g">> :> lang)
    @@ (<<"v", "e", "r", "s", "i", "o", "n">> :> version)
    @@ (<<"l", "i", "n", "k">> :> link)

\* The sitemap URL of a page: the base URL followed by the formatted template.
SitemapUrl(cfg, lang, version, link) ==
    cfg.html_baseurl \o StrFormat(cfg.sitemap_url_scheme, SitemapKw(lang, version, link))

PageLinks == { <<>>, <<"a">>, <<"a", "/", "b">> }
LangPrefixes == { <<>>, <<"z", "h", "_", "C", "N", "/">>, <<"e", "n", "/">> }
VersionPrefixes == { <<>>, <<"v", "1", "/">> }

TheSetupCall == Call("add_css_file", <<"theme.css">>)

\* Which extension each per-extension option belongs to.
OptionOwner ==
    { <<"togglebutton_hint", "sphinx_togglebutton">>,
      <<"togglebutton_hint_hide", "sphinx_togglebutton">>,
      <<"myst_enable_extensions", "myst_parser">>,
      <<"myst_heading_anchors", "myst_parser">>,
      <<"myst_highlight_code_blocks", "myst_parser">>,
      <<"sitemap_filename", "sphinx_sitemap">>,
      <<"sitemap_url_scheme", "sphinx_sitemap">>,
      <<"git_last_updated_timezone", "sphinx_last_updated_by_git">> }

(***************************************************************************)
(* Properties.                                                             *)
(***************************************************************************)

\* C1: every invocation of setup(app) makes exactly one call on the
\* application object, add_css_file("theme.css"), and returns None: after n
\* invocations the object has received exactly n calls, all of them
\* add_css_file("theme.css").
C1_SetupRegistersOnlyThemeCss ==
    /\ Len(app) = invocations
    /\ \A i \in DOMAIN app : app[i] = TheSetupCall
    /\ (invocations > 0 => ret = "None")

C1_Witness ==
    /\ invocations >= 2
    /\ Len(app) = invocations
    /\ app[invocations] = TheSetupCall
    /\ ret = "None"

\* C2: after any number of reads and of invocations of setup, in any order,
\* every configuration value equals the value it had right after load.
C2_ConfigFixedAfterLoad == config = ModuleLoad

C2_Witness ==
    /\ invocations >= 1
    /\ lastRead \in ConfigKeys
    /\ config.html_static_path = <<"_static", "_theme">>

\* C3: html_copy_source and html_show_sourcelink are both False in the loaded
\* configuration.
C3_SourceFlagsDisabled ==
    /\ config.html_copy_source = FALSE
    /\ config.html_show_sourcelink = FALSE

C3_Witness ==
    /\ lastRead = "html_show_sourcelink"
    /\ ~config.html_show_sourcelink
    /\ ~config.html_copy_source

\* C4 as stated: whenever html_copy_source and html_show_sourcelink are both
\* False, the theme option 'use_source_button' is not True.
C4_Original ==
    (~config.html_copy_source /\ ~config.html_show_sourcelink)
        => config.html_theme_options.use_source_button # TRUE

\* C4 amended: whenever html_copy_source and html_show_sourcelink are both
\* False, the theme options nevertheless enable the repository source button
\* ('use_source_button' is True), and it is backed by a non-empty
\* 'repository_url'.
C4_SourceButtonBackedByRepository ==
    (~config.html_copy_source /\ ~config.html_show_sourcelink)
        => /\ config.html_theme_options.use_source_button = TRUE
           /\ config.html_theme_options.repository_url # ""

C4_Witness ==
    /\ lastRead = "html_theme_options"
    /\ ~config.html_copy_source
    /\ ~config.html_show_sourcelink
    /\ config.html_theme_options.use_source_button

\* C5: every per-extension option that is set has its extension in the
\* extensions sequence; no such option is set for an extension that is not
\* loaded.
C5_OptionsHaveTheirExtension ==
    \A p \in OptionOwner :
        p[1] \in DOMAIN config => p[2] \in Range(config.extensions)

C5_Witness ==
    /\ lastRead = "sitemap_url_scheme"
    /\ "sphinx_sitemap" \in Range(config.extensions)
    /\ \A p \in OptionOwner : p[1] \in DOMAIN config

\* C6: extensions is a sequence of 13 names, none occurring twice, the first
\* 'myst_parser' and the last 'sphinxext.opengraph'.
C6_ExtensionsDistinct ==
    /\ Len(config.extensions) = 13
    /\ \A i, j \in DOMAIN config.extensions :
           config.extensions[i] = config.extensions[j] => i = j
    /\ config.extensions[1] = "myst_parser"
    /\ config.extensions[Len(config.extensions)] = "sphinxext.opengraph"

C6_Witness ==
    /\ lastRead = "extensions"
    /\ Cardinality(Range(config.extensions)) = 13

\* C7: sitemap_url_scheme is exactly '{link}', html_baseurl is non-empty and
\* ends in '/', sitemap_filename is 'sitemapindex.xml'; hence the sitemap URL
\* of any page link L is html_baseurl followed by L, whatever the language
\* (and version) the template is formatted with.
C7_SitemapUrlIsBasePlusLink ==
    /\ config.sitemap_url_scheme = <<"{", "l", "i", "n", "k", "}">>
    /\ Len(config.html_baseurl) > 0
    /\ config.html_baseurl[Len(config.html_baseurl)] = "/"
    /\ config.sitemap_filename = "sitemapindex.xml"
    /\ \A link \in PageLinks, lang \in LangPrefixes, version \in VersionPrefixes :
           SitemapUrl(config, lang, version, link) = config.html_baseurl \o link

C7_Witness ==
    /\ lastRead = "html_baseurl"
    /\ SitemapUrl(config, <<"z", "h", "_", "C", "N", "/">>, <<>>, <<"a", "/", "b">>)
         = <<"h", "t", "t", "p", "s", ":", "/", "/", "T", "O", "D", "O", "/",
             "a", "/", "b">>

\* C8: the part of language before '_' ('zh' of 'zh_CN') equals
\* html_search_language ('zh').
C8_LanguageMatchesSearchLanguage ==
    /\ PrimarySubtag(config.language) = config.html_search_language
    /\ config.html_search_language = <<"z", "h">>

C8_Witness ==
    /\ lastRead = "language"
    /\ Len(PrimarySubtag(config.language)) = 2
    /\ Len(config.language) = 5

\* C9: html_title equals project, the string 'Discord.js Bot Project', with
\* no additional text.
C9_TitleIsProject ==
    /\ config.html_title = config.project
    /\ config.html_title = "Discord.js Bot Project"

C9_Witness ==
    /\ lastRead = "html_title"
    /\ Len(config.html_title) = Len(config.project)
    /\ Len(config.html_title) = 22

====
